---- MODULE Spec2Model ----
(***************************************************************************)
(* A model of the NuGet retrieval layer of nuget_api.py: the failure       *)
(* classifiers, the package aggregator NugetPackage.load with its three    *)
(* sub-loads, the registration client's version resolution, and the        *)
(* catalog client's page generator.                                        *)
(*                                                                         *)
(* Spec      : one NugetPackage of one NugetContext session, loaded        *)
(*             repeatedly with any flags against a nondeterministic server *)
(* SpecReg   : the registration sub-load alone, against registration       *)
(*             indexes of several pages                                    *)
(* SpecPages : NugetCatalogClient.load() and one iteration of its          *)
(*             load_pages() by an `async for` caller                       *)
(* SpecPure  : one call of a function that touches no object, on each of   *)
(*             a bounded set of arguments                                  *)
(* SpecContext, FairSpecContext : the NugetContext session around a body   *)
(*             that uses the catalog client, without and with the event    *)
(*             loop's fairness                                             *)
(***************************************************************************)
EXTENDS Integers, Sequences, FiniteSets, TLC

\* ---------------------------------------------------------------- bounds

\* load() invocations on the package within the session
MaxLoads == 2
\* attempts the retrying transport makes for one get (a tunable of the policy)
MaxAttempts == 2
\* pages in a registration index document
MaxRegPages == 2
\* leaves in one registration page
MaxLeaves == 1
\* hits in one search response
MaxHits == 1
\* page URLs in the catalog root document
MaxCatalogPages == 3
\* hits in the search response handed to one call of the entry selection
MaxSearchHits == 2
\* characters in the authors string of a catalog entry
MaxAuthorsLen == 3
\* characters in the URL of a service index entry
MaxUrlLen == 3

\* ------------------------------------------------------------- constants

CATALOG_TYPE == "Catalog/3.0.0"
REGISTRATION_TYPE == "RegistrationsBaseUrl"
SEARCH_TYPE == "SearchQueryService"

ServiceTypes == {CATALOG_TYPE, REGISTRATION_TYPE, SEARCH_TYPE}

DEV == "DEV"
INT == "INT"
PROD == "PROD"

VALID_ENDPOINTS == <<DEV, INT, PROD>>

DEV_INDEX == "https://apidev.nugettest.org/v3/index.json"
INT_INDEX == "https://apiint.nugettest.org/v3/index.json"
PROD_INDEX == "https://api.nuget.org/v3/index.json"

\* ------------------------------------------------------------ exceptions

\* HTTP statuses a ClientResponseError carries here: a 4xx, the boundary 500, a 5xx
StatusCodes == {404, 500, 503}

Exc(cls, code) == [cls |-> cls, code |-> code]

NoExc == Exc("None", 0)

\* what one attempt of the transport can fail with
TransportExcs ==
    {Exc("CancelledError", 0), Exc("TimeoutError", 0),
     Exc("ClientConnectorError", 0), Exc("JSONDecodeError", 0)}
    \cup {Exc("ClientResponseError", c) : c \in StatusCodes}

\* The classes an exception class derives from (itself included), as far as
\* every interpreter agrees.  asyncio.CancelledError derives from Exception
\* before Python 3.8 and from BaseException alone from 3.8 on: see Catches.
Bases(cls) ==
    CASE cls = "CancelledError" ->
           {"CancelledError", "BaseException"}
      [] cls = "TimeoutError" ->
           {"TimeoutError", "Exception", "BaseException"}
      [] cls = "ClientResponseError" ->
           {"ClientResponseError", "ClientError", "Exception", "BaseException"}
      [] cls = "ClientConnectorError" ->
           {"ClientConnectorError", "ClientOSError", "ClientConnectionError",
            "ClientError", "OSError", "Exception", "BaseException"}
      [] cls = "JSONDecodeError" ->
           {"JSONDecodeError", "ValueError", "Exception", "BaseException"}
      [] cls = "IndexError" ->
           {"IndexError", "LookupError", "Exception", "BaseException"}
      [] cls = "RuntimeError" ->
           {"RuntimeError", "Exception", "BaseException"}
      [] cls = "AttributeError" ->
           {"AttributeError", "Exception", "BaseException"}
      [] OTHER -> {cls}

isinstance(exc, classes) == Bases(exc.cls) \cap classes # {}

ok_filter_500_excluded(exc) ==
    IF isinstance(exc, {"CancelledError", "TimeoutError"}) THEN TRUE
    ELSE IF isinstance(exc, {"ClientResponseError"}) /\ exc.code > 500 THEN TRUE
    ELSE FALSE

ok_filter(exc) ==
    IF isinstance(exc, {"CancelledError", "TimeoutError"}) THEN TRUE
    ELSE IF isinstance(exc, {"ClientResponseError"}) /\ exc.code >= 500 THEN TRUE
    ELSE FALSE

can_ignore_exception(exc) ==
    ok_filter(exc) \/ isinstance(exc, {"ClientError"})

\* RetryClient(json_client, ok_filter): an attempt that failed with exc is
\* repeated while the predicate holds and the policy has attempts left.
ShouldRetry(exc, n) == ok_filter(exc) /\ n < MaxAttempts

\* --------------------------------------------------------------- objects

None == [cls |-> "NoneType"]

Truthy_sentinel_false(o) == o.cls \notin {"NoneType", "NullPackageSearchInfo"}

\* Python truth value: None is false; an instance of a class that defines
\* neither __bool__ nor __len__ (every class of nuget_api.py) is true.
Truthy(o) == o.cls # "NoneType"

\* Python's `a and b`: a when a is false, else b
PyAnd(a, b) == IF Truthy(a) THEN b ELSE a

\* what a call comes to: the value it returns or the exception it raises
Returned(v) == [status |-> "returned", value |-> v]

Raised(e) == [status |-> "raised", exc |-> e]

check_endpoint_lenient(endpoint) == Returned(endpoint)

\* check_endpoint: `if endpoint not in VALID_ENDPOINTS: raise ValueError(...)`
\* with the message "Invalid endpoint ...", else `return endpoint`
check_endpoint(endpoint) ==
    IF \A i \in 1..Len(VALID_ENDPOINTS) : VALID_ENDPOINTS[i] # endpoint
    THEN Raised(Exc("ValueError", 0))
    ELSE Returned(endpoint)

\* get_endpoint_url: check_endpoint, then the index of the endpoint; the
\* assert stands before the last return
get_endpoint_url(endpoint) ==
    IF check_endpoint(endpoint).status = "raised" THEN check_endpoint(endpoint)
    ELSE IF endpoint = DEV THEN Returned(DEV_INDEX)
    ELSE IF endpoint = INT THEN Returned(INT_INDEX)
    ELSE IF endpoint # PROD THEN Raised(Exc("AssertionError", 0))
    ELSE Returned(PROD_INDEX)

\* ------------------------------------------------------------ text
\* A text whose characters matter is a sequence of one-character strings.

RECURSIVE rstrip(_, _)
\* str.rstrip(chars) for a single character
rstrip(s, ch) ==
    IF s = <<>> \/ s[Len(s)] # ch THEN s
    ELSE rstrip(SubSeq(s, 1, Len(s) - 1), ch)

RECURSIVE lstrip(_, _)
lstrip(s, ch) ==
    IF s = <<>> \/ s[1] # ch THEN s
    ELSE lstrip(SubSeq(s, 2, Len(s)), ch)

\* str.strip() on texts whose only whitespace is the blank
strip(s) == rstrip(lstrip(s, " "), " ")

RECURSIVE split(_, _)
\* str.split(sep): the pieces between the separators, empty pieces included
split(s, sep) ==
    IF \A i \in 1..Len(s) : s[i] # sep THEN <<s>>
    ELSE LET i == CHOOSE k \in 1..Len(s) :
                      s[k] = sep /\ \A m \in 1..(k - 1) : s[m] # sep
         IN  <<SubSeq(s, 1, i - 1)>> \o split(SubSeq(s, i + 1, Len(s)), sep)

\* the texts of at most n characters over the characters chars
Texts(chars, n) == UNION {[1..k -> chars] : k \in 0..n}

\* a str held where None may stand instead
Str(s) == [cls |-> "str", v |-> s]

NULL_SEARCH_INFO ==
    [cls |-> "NullPackageSearchInfo", id |-> "", total_downloads |-> -1,
     verified |-> FALSE]

PackageSearchInfo(node) ==
    [cls |-> "PackageSearchInfo", id |-> node.id,
     total_downloads |-> node.totalDownloads, verified |-> node.verified]

\* the id of the package stub under load, and the ids search hits carry
PkgId == "Foo.Bar"

\* The fields of a catalog entry document that PackageCatalogInfo reads with
\* a default.  An entry is [keys, authors, id, version]: keys are the optional
\* fields it carries, authors its authors text, id and version always there.
OptionalKeys ==
    {"authors", "created", "description", "isPrerelease", "listed", "summary",
     "tags"}

\* the value an entry carries under an optional key other than authors
EntryValue(key) ==
    CASE key = "created" -> Str("2018-01-01T00:00:00Z")
      [] key = "description" -> Str("d")
      [] key = "isPrerelease" -> TRUE
      [] key = "listed" -> FALSE
      [] key = "summary" -> Str("s")
      [] key = "tags" -> <<"t">>

\* dict.get(key, default)
JsonGet(json, key, default) ==
    IF key \in json.keys THEN EntryValue(key) ELSE default

\* PackageCatalogInfo.__init__(json)
PackageCatalogInfo(json) ==
    [cls |-> "PackageCatalogInfo",
     authors |-> IF "authors" \in json.keys
                 THEN [i \in 1..Len(split(json.authors, ",")) |->
                          strip(split(json.authors, ",")[i])]
                 ELSE <<>>,
     created |-> JsonGet(json, "created", Str("")),
     description |-> JsonGet(json, "description", Str("")),
     id |-> json.id,
     is_prerelease |-> JsonGet(json, "isPrerelease", FALSE),
     listed |-> JsonGet(json, "listed", TRUE),
     summary |-> JsonGet(json, "summary", None),
     tags |-> JsonGet(json, "tags", <<>>),
     version |-> json.version]

\* the catalog entries of PkgId
CatalogEntries ==
    {[keys |-> K, authors |-> a, id |-> PkgId, version |-> "1.0.0"] :
        K \in SUBSET OptionalKeys, a \in Texts({"a", ",", " "}, MaxAuthorsLen)}

\* the entry the catalog serves for the package under load
CatalogEntry ==
    [keys |-> OptionalKeys, authors |-> <<"a">>, id |-> PkgId,
     version |-> "1.0.0"]

HitIds == {"Foo.Bar", "foo.bar", "Baz"}

\* str.lower on the ids in play
lower(s) ==
    CASE s = "Foo.Bar" -> "foo.bar"
      [] s = "foo.bar" -> "foo.bar"
      [] s = "Baz" -> "baz"
      [] OTHER -> s

\* ---------------------------------------------------------- registration

RegistrationLeaf(i, k) == [page |-> i, leaf |-> k]

\* the leaves of registration page i when it holds n of them, oldest first
PageItems(i, n) == [k \in 1..n |-> RegistrationLeaf(i, k)]

\* a page node of a registration index: with its items embedded, or with only
\* its "@id"; count is the number of leaves of the page
RegPageNodes == [inline : BOOLEAN, count : 0..MaxLeaves]

\* the registration index documents the server may answer with
RegIndexDocs == UNION {[1..n -> RegPageNodes] : n \in 0..MaxRegPages}

\* those of at most one page
OnePageRegIndexDocs == {doc \in RegIndexDocs : Len(doc) <= 1}

RegistrationPage(node, i) ==
    [cls |-> "RegistrationPage", n |-> i, inline |-> node.inline,
     count |-> node.count, loaded |-> FALSE, leaves |-> <<>>]

PackageRegistrationInfo(doc) ==
    [cls |-> "PackageRegistrationInfo",
     pages |-> [i \in 1..Len(doc) |-> RegistrationPage(doc[i], i)]]

LoadPageIndex_first(info) == 1

\* PackageRegistrationInfo.load: the page it loads, self._pages[-1]
LoadPageIndex(info) == Len(info.pages)

\* RegistrationPage.load: 'items' not in self._json
PageNeedsFetch(page) == ~page.inline

\* RegistrationPage.load: the leaves built from the items at hand
PageLoaded(page) ==
    [page EXCEPT !.loaded = TRUE, !.leaves = PageItems(page.n, page.count)]

InfoWithPageLoaded(info, i) ==
    [info EXCEPT !.pages[i] = PageLoaded(info.pages[i])]

\* RegistrationPage.newest_leaf through PackageRegistrationInfo.newest_leaf;
\* an unloaded page (_leaves is None) or an empty one raises on the subscript
newest_leaf(info) ==
    LET p == info.pages[Len(info.pages)]
    IN  IF ~p.loaded THEN [err |-> "TypeError"]
        ELSE IF Len(p.leaves) = 0 THEN [err |-> "IndexError"]
        ELSE p.leaves[Len(p.leaves)]

\* ---------------------------------------------------------------- search

SearchDocs ==
    UNION {{[i \in 1..n |-> [id |-> f[i], totalDownloads |-> i, verified |-> TRUE]]
              : f \in [1..n -> HitIds]} : n \in 0..MaxHits}

\* the search responses of up to n hits
SearchDocsOf(n) ==
    UNION {{[i \in 1..k |-> [id |-> f[i], totalDownloads |-> i, verified |-> TRUE]]
              : f \in [1..k -> HitIds]} : k \in 0..n}

RECURSIVE FirstMatch_exact(_, _, _)
FirstMatch_exact(doc, i, id) ==
    IF i > Len(doc) THEN NULL_SEARCH_INFO
    ELSE IF PackageSearchInfo(doc[i]).id = id
         THEN PackageSearchInfo(doc[i])
         ELSE FirstMatch_exact(doc, i + 1, id)

RECURSIVE FirstMatch(_, _, _)
\* next((d for d in results if d.id.lower() == self.id.lower()), NULL_SEARCH_INFO)
FirstMatch(doc, i, id) ==
    IF i > Len(doc) THEN NULL_SEARCH_INFO
    ELSE IF lower(PackageSearchInfo(doc[i]).id) = lower(id)
         THEN PackageSearchInfo(doc[i])
         ELSE FirstMatch(doc, i + 1, id)

\* ----------------------------------------------------------------- state

VARIABLES
    pkg,         \* the NugetPackage: catalog, reg, search, loaded
    pc,          \* "idle": no load() under way; "running": one is suspended on a get
    flags,       \* the flags of the current or latest load() invocation
    req,         \* per sub-load, the get it is suspended on ("none": no get)
    attempts,    \* per sub-load, the attempts made by the get it is suspended
                 \* on, or by its get that raised
    regPending,  \* the PackageRegistrationInfo whose load() is under way
    started,     \* sub-loads the invocation has begun
    completed,   \* sub-loads the invocation has finished
    outcome,     \* of the latest invocation: "none", "returned", "raised"
    raisedExc,   \* the exception the latest invocation raised
    logged,      \* what the invocation's except clause wrote
    requests,    \* the URLs the invocation has passed to client.get, in order
    idxFetches,  \* per service type, gets of ctx.endpoint_url in the session
    lastFail,    \* the latest failed attempt of the get under way or of the
                 \* get that raised, and whether the transport repeated it
    loads,       \* load() invocations so far
    regDoc,      \* <<d>> once the invocation has received registration
                 \* index d, <<>> before
    \* ---- the catalog client, its page generator and the iterating caller
    cat,          \* NugetCatalogClient: "new", "index", "root" (the get its
                  \* load() is suspended on), "loaded", "failed"
    catalog_json, \* its _catalog_json: the root document's items
    gen,          \* the generator load_pages() returned: "created",
                  \* "fetching", "suspended" (at its yield), "done", "failed"
    page_urls,    \* the generator's local page_urls
    pos,          \* how many of page_urls its loop has taken
    fetched,      \* the page URLs passed to client.get, in order
    inflight,     \* positions in page_urls whose get is in flight
    pageAttempts, \* attempts made by the catalog client's get in flight
    delivered,    \* the URLs of the pages yielded to the caller, in order
    genExc,       \* the exception load() or the generator raised
    consumer,     \* the caller: "idle", "waiting" (in __anext__), "holding"
                  \* (in its loop body with a page), "stopped"
    consumed,     \* pages whose loop body the caller has finished
    \* ---- one call of a function of the module that touches no object
    call,         \* the function called and its argument
    result,       \* what the call returned or raised, Pending before it
    \* ---- the NugetContext session (`async with NugetContext() as ctx`)
    ses,          \* "new", "entering" (in __aenter__), "open" (in the body),
                  \* "exiting" (in __aexit__), "closed", "failed"
    exitKind,     \* how the body was left: "none", "normal", "error", "cancelled"
    transport     \* ctx.client: "none", "acquired", "released"

aggVars == <<pkg, pc, flags, req, attempts, regPending, started, completed,
             outcome, raisedExc, logged, requests, idxFetches, lastFail, loads,
             regDoc>>

pageVars == <<cat, catalog_json, gen, page_urls, pos, fetched, inflight,
              pageAttempts, delivered, genExc, consumer, consumed>>

callVars == <<call, result>>

sesVars == <<ses, exitKind, transport>>

vars == <<aggVars, pageVars, callVars, sesVars>>

Subs == {"catalog", "reg", "search"}

Order(s) == CASE s = "catalog" -> 1 [] s = "reg" -> 2 [] s = "search" -> 3

Url(u, n) == [u |-> u, n |-> n]

\* NugetPackage.__init__
NugetPackage ==
    [catalog |-> None, reg |-> None, search |-> None, loaded |-> FALSE]

NoFail == [exc |-> NoExc, retried |-> FALSE]

InitPages ==
    /\ cat = "new"
    /\ catalog_json = <<>>
    /\ page_urls = <<>>
    /\ pos = 0
    /\ gen = "created"
    /\ fetched = <<>>
    /\ inflight = {}
    /\ pageAttempts = 0
    /\ delivered = <<>>
    /\ genExc = NoExc
    /\ consumer = "idle"
    /\ consumed = 0

InitAgg ==
    /\ pkg = NugetPackage
    /\ pc = "idle"
    /\ flags = [s \in Subs |-> TRUE]
    /\ req = [s \in Subs |-> "none"]
    /\ attempts = [s \in Subs |-> 0]
    /\ regPending = None
    /\ started = {}
    /\ completed = {}
    /\ outcome = "none"
    /\ raisedExc = NoExc
    /\ logged = <<>>
    /\ requests = <<>>
    /\ idxFetches = [t \in ServiceTypes |-> 0]
    /\ lastFail = NoFail
    /\ loads = 0
    /\ regDoc = <<>>

\* no function call under way
NoCall == [fn |-> "none"]

Pending == [status |-> "pending"]

InitCalls ==
    /\ call = NoCall
    /\ result = Pending

\* the session as the aggregator and the catalog client see it: entered,
\* with ctx.client set by __aenter__
InitSession ==
    /\ ses = "open"
    /\ exitKind = "none"
    /\ transport = "acquired"

Init == InitAgg /\ InitPages /\ InitCalls /\ InitSession

\* ------------------------------------------------- NugetPackage.load steps

Enabled(f) == {s \in Subs : f[s]}

FirstOf(S) ==
    IF S = {} THEN {} ELSE {CHOOSE s \in S : \A t \in S : Order(s) <= Order(t)}

FirstSubs_gather(f) == Enabled(f)

\* load(): the sub-loads begun before the coroutine first suspends: the body
\* awaits them one after the other, so only the first one the flags enable
FirstSubs(f) == FirstOf(Enabled(f))

\* load(): the sub-load begun once sub-load k has returned
NextSubs(k, f) == FirstOf({s \in Enabled(f) : Order(s) > Order(k)})

\* the get a sub-load begins with: _load_catalog_info fetches the catalog
\* entry; _load_reg_info and _load_search_info build a client and load() it,
\* which fetches the service index (NugetClient.load_index)
FirstStep(s) == IF s = "catalog" THEN "entry" ELSE "index"

FirstUrl(s) ==
    IF s = "catalog" THEN Url("catalog_entry", 0) ELSE Url("index", 0)

ClientType(s) ==
    CASE s = "catalog" -> CATALOG_TYPE
      [] s = "reg" -> REGISTRATION_TYPE
      [] s = "search" -> SEARCH_TYPE

SubsInOrder(S) == SelectSeq(<<"catalog", "reg", "search">>, LAMBDA s : s \in S)

FirstUrls(S) == [i \in 1..Len(SubsInOrder(S)) |-> FirstUrl(SubsInOrder(S)[i])]

\* NugetClient.load_index called by the clients the sub-loads in S create
CountIndex(S) ==
    [t \in ServiceTypes |->
        idxFetches[t]
        + Cardinality({s \in S : FirstStep(s) = "index" /\ ClientType(s) = t})]

LoadedValue_any(p) ==
    Truthy(p.catalog) \/ Truthy(p.reg) \/ Truthy(p.search)

LoadedValue_requested(p) == \A s \in Subs : flags[s] => Truthy(p[s])

\* bool(self.catalog and self.reg and self.search)
LoadedValue(p) == Truthy(PyAnd(PyAnd(p.catalog, p.reg), p.search))

\* Whether `except Exception` catches exc: the outcomes the interpreters in
\* use give.  A CancelledError is caught before Python 3.8 and not from 3.8 on.
Catches(exc) ==
    IF exc.cls = "CancelledError" THEN BOOLEAN
    ELSE {isinstance(exc, {"Exception"})}

LoadExcept_wrapped(exc, caught) ==
    [log |-> IF ~caught THEN <<>>
             ELSE IF can_ignore_exception(exc)
                  THEN <<[level |-> "debug", id |-> PkgId, excname |-> exc.cls]>>
                  ELSE <<[level |-> "traceback", id |-> "", excname |-> exc.cls]>>,
     raised |-> IF caught THEN Exc("Exception", 0) ELSE exc]

\* load(): `except Exception as exc` with its bare `raise`, for an exception
\* the clause catches (caught) or lets pass: LOG.debug with the package id and
\* the exception's class name, or tb.print_exc(); the exception goes on as it is
LoadExcept(exc, caught) ==
    [log |-> IF ~caught THEN <<>>
             ELSE IF can_ignore_exception(exc)
                  THEN <<[level |-> "debug", id |-> PkgId, excname |-> exc.cls]>>
                  ELSE <<[level |-> "traceback", id |-> "", excname |-> exc.cls]>>,
     raised |-> exc]

Raise_retry(exc) ==
    LET k == CHOOSE s \in Subs : req[s] # "none"
    IN  /\ UNCHANGED <<logged, raisedExc, outcome, pc>>
        /\ req' = [req EXCEPT ![k] = FirstStep(k)]
        /\ regPending' = None
        /\ requests' = Append(requests, FirstUrl(k))
        /\ UNCHANGED <<pkg, flags, started, completed, idxFetches, loads,
                       pageVars, callVars, sesVars>>

Raise_continue(exc) ==
    LET k == CHOOSE s \in Subs : req[s] # "none"
        nxt == NextSubs(k, flags)
    IN  /\ \E caught \in Catches(exc) :
              /\ logged' = logged \o LoadExcept(exc, caught).log
              /\ raisedExc' = LoadExcept(exc, caught).raised
        /\ outcome' = IF nxt = {} THEN "raised" ELSE "none"
        /\ pc' = IF nxt = {} THEN "idle" ELSE "running"
        /\ req' = [s \in Subs |-> IF s \in nxt THEN FirstStep(s) ELSE "none"]
        /\ regPending' = None
        /\ started' = started \cup nxt
        /\ requests' = requests \o FirstUrls(nxt)
        /\ UNCHANGED <<pkg, flags, completed, idxFetches, loads, pageVars, callVars, sesVars>>

\* an exception reaches load()'s try block: the invocation ends raising
Raise(exc) ==
    /\ \E caught \in Catches(exc) :
          /\ logged' = logged \o LoadExcept(exc, caught).log
          /\ raisedExc' = LoadExcept(exc, caught).raised
    /\ outcome' = "raised"
    /\ pc' = "idle"
    /\ req' = [s \in Subs |-> "none"]
    /\ regPending' = None
    /\ UNCHANGED <<pkg, flags, started, completed, requests, idxFetches,
                   loads, pageVars, callVars, sesVars>>

\* sub-load k has returned, leaving the package as p: the next enabled
\* sub-load begins, or load() sets loaded and returns
SubDone(k, p) ==
    LET nxt == NextSubs(k, flags) \ started
        others == {s \in Subs \ {k} : req[s] # "none"}
    IN  /\ completed' = completed \cup {k}
        /\ started' = started \cup nxt
        /\ attempts' = [s \in Subs |->
                          IF s \in nxt THEN 1 ELSE IF s = k THEN 0 ELSE attempts[s]]
        /\ lastFail' = NoFail
        /\ IF nxt = {} /\ others = {}
           THEN /\ pkg' = [p EXCEPT !.loaded = LoadedValue(p)]
                /\ pc' = "idle"
                /\ outcome' = "returned"
                /\ req' = [req EXCEPT ![k] = "none"]
                /\ UNCHANGED <<requests, idxFetches>>
           ELSE /\ pkg' = p
                /\ req' = [s \in Subs |->
                             IF s \in nxt THEN FirstStep(s)
                             ELSE IF s = k THEN "none" ELSE req[s]]
                /\ requests' = requests \o FirstUrls(nxt)
                /\ idxFetches' = CountIndex(nxt)
                /\ UNCHANGED <<pc, outcome>>
        /\ UNCHANGED <<flags, raisedExc, logged, loads, pageVars, callVars, sesVars>>

\* sub-load k passes url to client.get and suspends on it
SubGet(k, step, url) ==
    /\ req' = [req EXCEPT ![k] = step]
    /\ attempts' = [attempts EXCEPT ![k] = 1]
    /\ requests' = Append(requests, url)
    /\ lastFail' = NoFail
    /\ UNCHANGED <<pkg, pc, flags, started, completed, outcome, raisedExc,
                   logged, idxFetches, loads, pageVars, callVars, sesVars>>

\* NugetPackage.load(catalog, reg, search), up to its first suspension
Load(c, r, s) ==
    LET f == [x \in Subs |-> CASE x = "catalog" -> c [] x = "reg" -> r
                               [] x = "search" -> s]
        first == FirstSubs(f)
    IN  /\ pc = "idle"
        /\ loads < MaxLoads
        /\ loads' = loads + 1
        /\ flags' = f
        /\ started' = first
        /\ completed' = {}
        /\ logged' = <<>>
        /\ raisedExc' = NoExc
        /\ lastFail' = NoFail
        /\ regPending' = None
        /\ regDoc' = <<>>
        /\ requests' = FirstUrls(first)
        /\ idxFetches' = CountIndex(first)
        /\ req' = [x \in Subs |-> IF x \in first THEN FirstStep(x) ELSE "none"]
        /\ attempts' = [x \in Subs |-> IF x \in first THEN 1 ELSE 0]
        /\ IF first = {}
           THEN /\ pkg' = [pkg EXCEPT !.loaded = LoadedValue(pkg)]
                /\ pc' = "idle"
                /\ outcome' = "returned"
           ELSE /\ pc' = "running"
                /\ outcome' = "none"
                /\ UNCHANGED pkg
        /\ UNCHANGED <<pageVars, callVars, sesVars>>

\* the transport: an attempt of sub-load k's get fails and is repeated
TransportRetry(k, exc) ==
    /\ pc = "running"
    /\ req[k] # "none"
    /\ ShouldRetry(exc, attempts[k])
    /\ attempts' = [attempts EXCEPT ![k] = @ + 1]
    /\ lastFail' = [exc |-> exc, retried |-> TRUE]
    /\ UNCHANGED <<pkg, pc, flags, req, regPending, started, completed,
                   outcome, raisedExc, logged, requests, idxFetches, loads,
                   regDoc, pageVars, callVars, sesVars>>

\* the transport: an attempt of sub-load k's get fails and the failure is
\* raised out of client.get into the sub-load and so into load()
TransportRaise(k, exc) ==
    /\ pc = "running"
    /\ req[k] # "none"
    /\ ~ShouldRetry(exc, attempts[k])
    /\ lastFail' = [exc |-> exc, retried |-> FALSE]
    /\ UNCHANGED <<attempts, regDoc>>
    /\ Raise(exc)

\* _load_catalog_info: the catalog entry arrives
CatalogEntryOk ==
    /\ pc = "running"
    /\ req["catalog"] = "entry"
    /\ UNCHANGED <<regPending, regDoc>>
    /\ SubDone("catalog", [pkg EXCEPT !.catalog = PackageCatalogInfo(CatalogEntry)])

\* NugetClient.load_index of sub-load k's client: the service index arrives;
\* hasType is whether it lists a resource of the client's type.  next() on
\* the exhausted generator raises StopIteration, which leaves the coroutine
\* as a RuntimeError.
DiscoveryOk(k, hasType) ==
    /\ pc = "running"
    /\ req[k] = "index"
    /\ UNCHANGED regDoc
    /\ IF hasType
       THEN /\ SubGet(k, IF k = "reg" THEN "regindex" ELSE "query",
                      IF k = "reg" THEN Url("reg_index", 0) ELSE Url("search", 0))
            /\ UNCHANGED regPending
       ELSE /\ Raise(Exc("RuntimeError", 0))
            /\ attempts' = [attempts EXCEPT ![k] = 0]
            /\ lastFail' = NoFail

\* NugetRegistrationClient.load_package: the registration index arrives and
\* PackageRegistrationInfo(reg_json, ctx).load() runs to its get or its end
RegIndexOk(doc) ==
    LET info == PackageRegistrationInfo(doc)
        i == LoadPageIndex(info)
    IN  /\ pc = "running"
        /\ req["reg"] = "regindex"
        /\ regDoc' = <<doc>>
        /\ IF Len(info.pages) = 0
           THEN /\ Raise(Exc("IndexError", 0))
                /\ attempts' = [attempts EXCEPT !["reg"] = 0]
                /\ lastFail' = NoFail
           ELSE IF PageNeedsFetch(info.pages[i])
           THEN /\ regPending' = info
                /\ SubGet("reg", "regpage", Url("reg_page", i))
           ELSE /\ regPending' = None
                /\ SubDone("reg", [pkg EXCEPT !.reg = InfoWithPageLoaded(info, i)])

\* RegistrationPage.load: the page fetched from its "@id" arrives
RegPageOk ==
    /\ pc = "running"
    /\ req["reg"] = "regpage"
    /\ regPending' = None
    /\ UNCHANGED regDoc
    /\ SubDone("reg", [pkg EXCEPT !.reg =
                         InfoWithPageLoaded(regPending, LoadPageIndex(regPending))])

\* NugetSearchClient.search: the search response arrives and
\* _load_search_info picks the package's entry out of it
SearchQueryOk(doc) ==
    /\ pc = "running"
    /\ req["search"] = "query"
    /\ UNCHANGED <<regPending, regDoc>>
    /\ SubDone("search", [pkg EXCEPT !.search = FirstMatch(doc, 1, PkgId)])

NextAgg ==
    \/ \E c, r, s \in BOOLEAN : Load(c, r, s)
    \/ \E k \in Subs, exc \in TransportExcs : TransportRetry(k, exc)
    \/ \E k \in Subs, exc \in TransportExcs : TransportRaise(k, exc)
    \/ CatalogEntryOk
    \/ \E k \in {"reg", "search"}, hasType \in BOOLEAN : DiscoveryOk(k, hasType)
    \/ \E doc \in OnePageRegIndexDocs : RegIndexOk(doc)
    \/ RegPageOk
    \/ \E doc \in SearchDocs : SearchQueryOk(doc)

Next == NextAgg

Spec == Init /\ [][Next]_vars

\* The registration client alone: the first load() of a fresh package with only
\* the registration sub-load requested (_load_reg_info: a new
\* NugetRegistrationClient, load(), load_package(id)), against registration
\* indexes of any number of pages.
NextReg ==
    \/ loads = 0 /\ Load(FALSE, TRUE, FALSE)
    \/ \E exc \in TransportExcs : TransportRetry("reg", exc)
    \/ \E exc \in TransportExcs : TransportRaise("reg", exc)
    \/ \E hasType \in BOOLEAN : DiscoveryOk("reg", hasType)
    \/ \E doc \in RegIndexDocs : RegIndexOk(doc)
    \/ RegPageOk

SpecReg == Init /\ [][NextReg]_vars

\* ------------------------------------------ NugetCatalogClient, load_pages

\* the page URLs a catalog root document may list: ...page<N>.json, and one
\* URL the pattern page([0-9]+)\.json$ does not match
CatalogUrls == {Url("page", 0), Url("page", 1), Url("other", 0)}

\* the root documents' items: nodes {"@id": url}
CatalogDocs ==
    UNION {[1..n -> [id : CatalogUrls]] : n \in 0..MaxCatalogPages}

PageUrlsOf_reversed(json) == [i \in 1..Len(json) |-> json[Len(json) + 1 - i].id]

\* load_pages: [node['@id'] for node in self._catalog_json['items']]
PageUrlsOf(json) == [i \in 1..Len(json) |-> json[i].id]

\* NugetPage.__init__: re.search(r'page([0-9]+)\.json$', url) found a match
MatchesPageRe(url) == url.u = "page"

PagesToFetch_ahead(i, urls) ==
    [j \in 1..(IF i + 2 <= Len(urls) THEN 2 ELSE 1) |-> i + j]

\* load_pages: the positions whose page the loop constructs and load()s when
\* the generator is resumed having taken i URLs: the next one alone
PagesToFetch(i, urls) == <<i + 1>>

IsPrefix(s, t) == Len(s) <= Len(t) /\ \A i \in 1..Len(s) : s[i] = t[i]

\* NugetCatalogClient.load(), up to the get of load_index
CatalogLoad ==
    /\ cat = "new"
    /\ cat' = "index"
    /\ pageAttempts' = 1
    /\ idxFetches' = [idxFetches EXCEPT ![CATALOG_TYPE] = @ + 1]
    /\ UNCHANGED <<catalog_json, gen, page_urls, pos, fetched, inflight,
                   delivered, genExc, consumer, consumed>>
    /\ UNCHANGED <<pkg, pc, flags, req, attempts, regPending, started, completed,
                   outcome, raisedExc, logged, requests, lastFail, loads, regDoc,
                   callVars, sesVars>>

\* load_index: the service index arrives; load_catalog passes the catalog's
\* URL to client.get, or the index lists no catalog resource
CatalogDiscoveryOk(hasType) ==
    /\ cat = "index"
    /\ IF hasType
       THEN /\ cat' = "root"
            /\ pageAttempts' = 1
            /\ UNCHANGED genExc
       ELSE /\ cat' = "failed"
            /\ pageAttempts' = 0
            /\ genExc' = Exc("RuntimeError", 0)
    /\ UNCHANGED <<catalog_json, gen, page_urls, pos, fetched, inflight,
                   delivered, consumer, consumed, aggVars, callVars, sesVars>>

\* load_catalog: the root document arrives
CatalogRootOk(doc) ==
    /\ cat = "root"
    /\ cat' = "loaded"
    /\ catalog_json' = doc
    /\ pageAttempts' = 0
    /\ UNCHANGED <<gen, page_urls, pos, fetched, inflight, delivered, genExc,
                   consumer, consumed, aggVars, callVars, sesVars>>

\* the transport: an attempt of the catalog client's or the generator's get
\* fails and is repeated
CatalogGetRetry(exc) ==
    /\ cat \in {"index", "root"} \/ gen = "fetching"
    /\ ShouldRetry(exc, pageAttempts)
    /\ pageAttempts' = pageAttempts + 1
    /\ UNCHANGED <<cat, catalog_json, gen, page_urls, pos, fetched, inflight,
                   delivered, genExc, consumer, consumed, aggVars, callVars, sesVars>>

\* the transport: an attempt of load()'s get fails and load() raises
CatalogLoadRaise(exc) ==
    /\ cat \in {"index", "root"}
    /\ ~ShouldRetry(exc, pageAttempts)
    /\ cat' = "failed"
    /\ genExc' = exc
    /\ UNCHANGED <<catalog_json, gen, page_urls, pos, fetched, inflight,
                   pageAttempts, delivered, consumer, consumed, aggVars, callVars, sesVars>>

\* the generator's loop, resumed with urls as its page_urls: it ends, or
\* builds the next NugetPage and suspends in its load()
GenAdvance(urls) ==
    IF pos = Len(urls)
    THEN /\ gen' = "done"
         /\ consumer' = "stopped"
         /\ UNCHANGED <<pos, fetched, inflight, pageAttempts, genExc>>
    ELSE IF ~MatchesPageRe(urls[pos + 1])
    THEN /\ gen' = "failed"
         /\ genExc' = Exc("AttributeError", 0)
         /\ consumer' = "stopped"
         /\ pos' = pos + 1
         /\ UNCHANGED <<fetched, inflight, pageAttempts>>
    ELSE LET js == PagesToFetch(pos, urls)
         IN  /\ gen' = "fetching"
             /\ consumer' = "waiting"
             /\ pos' = pos + 1
             /\ fetched' = fetched \o [j \in 1..Len(js) |-> urls[js[j]]]
             /\ inflight' = inflight \cup {js[j] : j \in 1..Len(js)}
             /\ pageAttempts' = 1
             /\ UNCHANGED genExc

\* the caller asks the generator for its next page (__anext__): the first
\* time, the body starts and reads self._catalog_json, which is None (a
\* TypeError) unless load() has completed
ConsumerNext ==
    /\ consumer = "idle"
    /\ gen \in {"created", "suspended"}
    /\ IF gen = "created" /\ cat # "loaded"
       THEN /\ gen' = "failed"
            /\ genExc' = Exc("TypeError", 0)
            /\ consumer' = "stopped"
            /\ UNCHANGED <<page_urls, pos, fetched, inflight, pageAttempts>>
       ELSE IF gen = "created"
       THEN /\ page_urls' = PageUrlsOf(catalog_json)
            /\ GenAdvance(PageUrlsOf(catalog_json))
       ELSE /\ UNCHANGED page_urls
            /\ GenAdvance(page_urls)
    /\ UNCHANGED <<cat, catalog_json, delivered, consumed, aggVars, callVars, sesVars>>

\* NugetPage.load: the page arrives and the generator yields it
PageFetchOk ==
    /\ gen = "fetching"
    /\ gen' = "suspended"
    /\ inflight' = inflight \ {pos}
    /\ delivered' = Append(delivered, page_urls[pos])
    /\ consumer' = "holding"
    /\ pageAttempts' = 0
    /\ UNCHANGED <<cat, catalog_json, page_urls, pos, fetched, genExc, consumed,
                   aggVars, callVars, sesVars>>

\* the transport: an attempt of the page's get fails and the failure is
\* raised through the generator to the caller
PageFetchRaise(exc) ==
    /\ gen = "fetching"
    /\ ~ShouldRetry(exc, pageAttempts)
    /\ gen' = "failed"
    /\ genExc' = exc
    /\ inflight' = inflight \ {pos}
    /\ consumer' = "stopped"
    /\ UNCHANGED <<cat, catalog_json, page_urls, pos, fetched, pageAttempts,
                   delivered, consumed, aggVars, callVars, sesVars>>

\* the caller finishes its loop body with the page it holds
ConsumerBody ==
    /\ consumer = "holding"
    /\ consumer' = "idle"
    /\ consumed' = consumed + 1
    /\ UNCHANGED <<cat, catalog_json, gen, page_urls, pos, fetched, inflight,
                   pageAttempts, delivered, genExc, aggVars, callVars, sesVars>>

\* the caller leaves its loop with the page it holds and asks for no more
ConsumerBreak ==
    /\ consumer = "holding"
    /\ consumer' = "stopped"
    /\ UNCHANGED <<cat, catalog_json, gen, page_urls, pos, fetched, inflight,
                   pageAttempts, delivered, genExc, consumed, aggVars, callVars, sesVars>>

NextPages ==
    \/ CatalogLoad
    \/ \E hasType \in BOOLEAN : CatalogDiscoveryOk(hasType)
    \/ \E doc \in CatalogDocs : CatalogRootOk(doc)
    \/ \E exc \in TransportExcs : CatalogGetRetry(exc)
    \/ \E exc \in TransportExcs : CatalogLoadRaise(exc)
    \/ ConsumerNext
    \/ PageFetchOk
    \/ \E exc \in TransportExcs : PageFetchRaise(exc)
    \/ ConsumerBody
    \/ ConsumerBreak

SpecPages == Init /\ [][NextPages]_vars

\* ------------------------------------------------------------------------
\* Single calls of the functions that touch no object: endpoint resolution,
\* the entry selection of _load_search_info, PackageCatalogInfo.__init__ and
\* the rstrip of load_index
\* ------------------------------------------------------------------------

\* endpoint names a caller may pass
EndpointNames == {DEV, INT, PROD, "dev", "Prod", "STAGING", ""}

\* the ids of the package whose search entry is selected
SearchedIds == {"Foo.Bar", "foo.bar", "Baz"}

Calls ==
    {[fn |-> "get_endpoint_url", endpoint |-> e] : e \in EndpointNames}
    \cup {[fn |-> "FirstMatch", doc |-> d, id |-> i] :
             d \in SearchDocsOf(MaxSearchHits), i \in SearchedIds}
    \cup {[fn |-> "PackageCatalogInfo", json |-> j] : j \in CatalogEntries}
    \cup {[fn |-> "rstrip", url |-> u] : u \in Texts({"u", "/"}, MaxUrlLen)}

InitPure ==
    /\ InitAgg
    /\ InitPages
    /\ InitSession
    /\ call \in Calls
    /\ result = Pending

\* the call is made and comes to r
Completes(r) ==
    /\ result.status = "pending"
    /\ result' = r
    /\ UNCHANGED <<call, aggVars, pageVars, sesVars>>

\* get_endpoint_url(endpoint)
CallGetEndpointUrl ==
    /\ call.fn = "get_endpoint_url"
    /\ Completes(get_endpoint_url(call.endpoint))

\* _load_search_info: next(...) over the results of the search
CallFirstMatch ==
    /\ call.fn = "FirstMatch"
    /\ Completes(Returned(FirstMatch(call.doc, 1, call.id)))

\* PackageCatalogInfo(json)
CallPackageCatalogInfo ==
    /\ call.fn = "PackageCatalogInfo"
    /\ Completes(Returned(PackageCatalogInfo(call.json)))

\* load_index: endpoint_url.rstrip('/')
CallRstrip ==
    /\ call.fn = "rstrip"
    /\ Completes(Returned(rstrip(call.url, "/")))

NextPure ==
    \/ CallGetEndpointUrl
    \/ CallFirstMatch
    \/ CallPackageCatalogInfo
    \/ CallRstrip

SpecPure == InitPure /\ [][NextPure]_vars

\* ------------------------------------------------------------------------
\* The NugetContext session: `async with NugetContext(...) as ctx:` around a
\* body that loads the catalog client and iterates its pages
\* ------------------------------------------------------------------------

\* NugetContext.__init__: self.client = None
InitContext ==
    /\ InitAgg
    /\ InitPages
    /\ InitCalls
    /\ ses = "new"
    /\ exitKind = "none"
    /\ transport = "none"

\* __aenter__ up to its await: the JSONClient is built and
\* RetryClient(json_client, ok_filter).__aenter__() is awaited
NugetContextAenter ==
    /\ ses = "new"
    /\ ses' = "entering"
    /\ UNCHANGED <<exitKind, transport, aggVars, pageVars, callVars>>

\* the awaited __aenter__ returns: self.client is set and the body begins
ClientAenterDone ==
    /\ ses = "entering"
    /\ ses' = "open"
    /\ transport' = "acquired"
    /\ UNCHANGED <<exitKind, aggVars, pageVars, callVars>>

\* the awaited __aenter__ raises (the task is cancelled in it): self.client
\* stays None, the body does not run and __aexit__ is not called
ClientAenterRaise ==
    /\ ses = "entering"
    /\ ses' = "failed"
    /\ UNCHANGED <<exitKind, transport, aggVars, pageVars, callVars>>

\* the body is suspended on a get of the client
BodySuspended == cat \in {"index", "root"} \/ consumer = "waiting"

\* the body runs off its end or returns; `async with` calls __aexit__
BodyReturn ==
    /\ ses = "open"
    /\ ~BodySuspended
    /\ ses' = "exiting"
    /\ exitKind' = "normal"
    /\ UNCHANGED <<transport, aggVars, pageVars, callVars>>

\* the exception that load() or the page generator raised leaves the body
BodyRaise ==
    /\ ses = "open"
    /\ cat = "failed" \/ gen = "failed"
    /\ ses' = "exiting"
    /\ exitKind' = "error"
    /\ UNCHANGED <<transport, aggVars, pageVars, callVars>>

\* the task is cancelled while the body is suspended or about to suspend:
\* CancelledError leaves the body
BodyCancel ==
    /\ ses = "open"
    /\ ses' = "exiting"
    /\ exitKind' = "cancelled"
    /\ UNCHANGED <<transport, aggVars, pageVars, callVars>>

NugetContextAexit_normal_only ==
    /\ ses = "exiting"
    /\ ses' = IF exitKind = "normal" THEN "closing" ELSE "closed"
    /\ UNCHANGED <<exitKind, transport, aggVars, pageVars, callVars>>

\* __aexit__(type_, value, traceback): whatever its arguments, it awaits
\* self.client.__aexit__(type_, value, traceback)
NugetContextAexit ==
    /\ ses = "exiting"
    /\ ses' = "closing"
    /\ UNCHANGED <<exitKind, transport, aggVars, pageVars, callVars>>

\* the client's __aexit__ returns: the transport has released its connections
ClientAexitDone ==
    /\ ses = "closing"
    /\ ses' = "closed"
    /\ transport' = "released"
    /\ UNCHANGED <<exitKind, aggVars, pageVars, callVars>>

\* the body at work
BodyStep ==
    /\ ses = "open"
    /\ NextPages

NextContext ==
    \/ NugetContextAenter
    \/ ClientAenterDone
    \/ ClientAenterRaise
    \/ BodyStep
    \/ BodyReturn
    \/ BodyRaise
    \/ BodyCancel
    \/ NugetContextAexit
    \/ ClientAexitDone

SpecContext == InitContext /\ [][NextContext]_vars

\* The event loop resumes a coroutine that can run: __aexit__, once called,
\* runs to its await, and the awaited client.__aexit__ returns.
FairSpecContext ==
    /\ SpecContext
    /\ WF_vars(NugetContextAexit)
    /\ WF_vars(ClientAexitDone)

\* ------------------------------------------------- properties under Spec

\* the three components are non-null
AllPresent == pkg.catalog # None /\ pkg.reg # None /\ pkg.search # None

\* C3: after load() returns normally, loaded is true if and only if catalog,
\* reg and search are all non-null; the null search sentinel counts as present.
C3_LoadedIffAllPresent ==
    outcome = "returned" =>
        /\ pkg.loaded <=> AllPresent
        /\ (pkg.catalog # None /\ pkg.reg # None /\ pkg.search = NULL_SEARCH_INFO)
              => pkg.loaded

C3_Witness ==
    /\ outcome = "returned"
    /\ pkg.search = NULL_SEARCH_INFO
    /\ pkg.catalog # None
    /\ pkg.reg # None
    /\ pkg.loaded

\* C4 as the spec has it: on a fresh package a load that skips a sub-load by
\* its flags and whose requested sub-loads all succeeded ends with loaded true.
C4_SkippedDoesNotCount ==
    (loads = 1 /\ outcome = "returned" /\ Enabled(flags) \notin {{}, Subs})
        => pkg.loaded

\* C4 as the code has it: the first load() of a fresh package that returns
\* normally leaves loaded true exactly when all three flags were set; a
\* skipped sub-load leaves its component null and loaded false.
C4_FreshLoadedIffAllRequested ==
    (loads = 1 /\ outcome = "returned") =>
        /\ pkg.loaded <=> Enabled(flags) = Subs
        /\ \A s \in Subs : pkg[s] # None <=> flags[s]

C4_Witness ==
    /\ loads = 1
    /\ outcome = "returned"
    /\ flags = [catalog |-> FALSE, reg |-> TRUE, search |-> TRUE]
    /\ pkg.reg # None
    /\ pkg.search # None
    /\ ~pkg.loaded

TracebackOf(exc) == [level |-> "traceback", id |-> "", excname |-> exc.cls]

DebugLineOf(exc) == [level |-> "debug", id |-> PkgId, excname |-> exc.cls]

\* C5: a sub-load failing with an HTTP 404 is not retryable for the transport's
\* predicate, and load() emits the full trace, not the debug line, and re-raises.
C5_NotFoundIsTraced ==
    (outcome = "raised" /\ lastFail.exc = Exc("ClientResponseError", 404)) =>
        /\ ~ok_filter(lastFail.exc)
        /\ logged = <<TracebackOf(lastFail.exc)>>
        /\ raisedExc = lastFail.exc

\* the failures C6 lists: timeout, HTTP status >= 500, generic connectivity
C6_Failures ==
    {Exc("TimeoutError", 0), Exc("ClientConnectorError", 0)}
    \cup {Exc("ClientResponseError", c) : c \in {c \in StatusCodes : c >= 500}}

\* C6: when a sub-load's get ultimately fails with a timeout, a status >= 500
\* or a connectivity failure, load() writes the debug line with the package id
\* and the exception's name and raises that same exception; it does not return.
C6_IgnorableLoggedAndReraised ==
    (lastFail.exc \in C6_Failures /\ ~lastFail.retried) =>
        /\ pc = "idle"
        /\ outcome = "raised"
        /\ raisedExc = lastFail.exc
        /\ logged = <<DebugLineOf(lastFail.exc)>>

C6_Witness ==
    /\ outcome = "raised"
    /\ raisedExc = Exc("ClientResponseError", 503)
    /\ lastFail = [exc |-> Exc("ClientResponseError", 503), retried |-> FALSE]
    /\ attempts["reg"] = MaxAttempts
    /\ logged = <<DebugLineOf(raisedExc)>>
    /\ pkg.catalog # None

\* C8: within the session the root index is requested at most once per
\* service type, whatever clients are created and packages loaded.
C8_IndexFetchedOncePerType == \A t \in ServiceTypes : idxFetches[t] <= 1

C10_Retryable(e) ==
    \/ e.cls \in {"CancelledError", "TimeoutError"}
    \/ e.cls = "ClientResponseError" /\ e.code >= 500

\* C10: ok_filter holds exactly for cancellation, timeout and response errors
\* with status >= 500; an attempt failing with anything else is not repeated:
\* the failure is raised at once.  A retryable failure is raised only when the
\* policy's attempts are used up.
C10_RetryableExactly ==
    lastFail.exc # NoExc =>
        /\ ok_filter(lastFail.exc) <=> C10_Retryable(lastFail.exc)
        /\ lastFail.retried => C10_Retryable(lastFail.exc)
        /\ ~C10_Retryable(lastFail.exc) =>
              /\ ~lastFail.retried
              /\ outcome = "raised"
              /\ raisedExc = lastFail.exc
        /\ (C10_Retryable(lastFail.exc) /\ ~lastFail.retried) =>
              \E k \in Subs : attempts[k] = MaxAttempts

C10_Witness ==
    /\ outcome = "raised"
    /\ lastFail = [exc |-> Exc("ClientResponseError", 404), retried |-> FALSE]
    /\ requests = <<Url("catalog_entry", 0)>>
    /\ attempts["catalog"] = 1

\* ---------------------------------------------- properties under SpecReg

\* the registration page URLs the invocation has requested
RegPageRequests == SelectSeq(requests, LAMBDA u : u.u = "reg_page")

RootUrls == [i \in 1..Len(catalog_json) |-> catalog_json[i].id]

\* C1: whatever number of page URLs the root document lists, the pages are
\* delivered in the order of its URLs and every listed URL is fetched in that
\* order and once: the URLs fetched and the pages delivered are prefixes of the
\* root document's list, and an iteration that ends has delivered all of it.
C1_PagesInRootOrder ==
    /\ IsPrefix(fetched, RootUrls)
    /\ IsPrefix(delivered, fetched)
    /\ gen = "done" => delivered = RootUrls

C1_Witness ==
    /\ gen = "done"
    /\ Len(delivered) = MaxCatalogPages
    /\ delivered[1] # delivered[2]
    /\ delivered = RootUrls

\* C2: pages are fetched one at a time with no prefetching: at most one page
\* get is in flight; it is the get of the page after those delivered, begun
\* while the caller waits in __anext__ having finished its loop body with
\* every page delivered before.
C2_OnePageAtATime ==
    /\ Cardinality(inflight) <= 1
    /\ Len(fetched) <= consumed + 1
    /\ \A i \in inflight :
          /\ i = Len(delivered) + 1
          /\ consumed = i - 1
          /\ consumer = "waiting"
          /\ gen = "fetching"

C2_Witness ==
    /\ inflight = {2}
    /\ Len(delivered) = 1
    /\ consumed = 1
    /\ Len(page_urls) = 3
    /\ consumer = "waiting"

\* ------------------------------------------------------------------------
\* Claims about the classification of failures
\* ------------------------------------------------------------------------

\* the exceptions the claim calls ignorable: the retryable ones and generic
\* connectivity failures
C11_Ignorable(e) ==
    \/ C10_Retryable(e)
    \/ e.cls = "ClientConnectorError"

\* C11: a failure raised into load() is ignorable exactly when it is
\* retryable or a generic connectivity failure; no 4xx response and no
\* malformed body is ignorable.
C11_IgnorableExactly ==
    (outcome = "raised" /\ lastFail.exc # NoExc)
        => (can_ignore_exception(lastFail.exc) <=> C11_Ignorable(lastFail.exc))

\* C12: a cancellation is treated as a timeout is: retryable for the
\* transport, and at load() it takes the ignorable path, one debug line with
\* the package id and the exception's class name, and is raised on unchanged.
C12_CancellationAsTimeout ==
    (outcome = "raised" /\ lastFail.exc.cls \in {"CancelledError", "TimeoutError"})
        => /\ ok_filter(lastFail.exc)
           /\ logged = <<DebugLineOf(lastFail.exc)>>
           /\ raisedExc = lastFail.exc

\* the invocation ended in load_index on a service index that lists no
\* resource of the client's type
C13_DiscoveryMissed ==
    /\ outcome = "raised"
    /\ lastFail = NoFail
    /\ requests # <<>>
    /\ requests[Len(requests)].u = "index"

\* C13: load_index fetches the service index once for its sub-load, and on an
\* index without an entry of the client's type the invocation ends with a
\* ServiceNotFound error, without another fetch of the index.
C13_MissIsServiceNotFound ==
    C13_DiscoveryMissed
        => /\ raisedExc.cls = "ServiceNotFound"
           /\ Len(SelectSeq(requests, LAMBDA r : r.u = "index"))
                 = Cardinality(started \ {"catalog"})

\* ------------------------------------------------------------------------
\* Claims about an invocation of load() as a whole
\* ------------------------------------------------------------------------

\* how many requests of the invocation went to urls of kind u
C17_Count(u) == Len(SelectSeq(requests, LAMBDA r : r.u = u))

\* C17: load() has no retry loop.  An invocation runs and then has returned
\* or raised; each enabled sub-load is attempted at most once in it (its
\* requests are issued once each), and once a sub-load raises the invocation
\* has ended raised with that sub-load neither completed nor begun again.
C17_NoRetryInLoad ==
    /\ (pc = "running") <=> (loads > 0 /\ outcome = "none")
    /\ (pc = "idle" /\ loads > 0) => outcome \in {"returned", "raised"}
    /\ (outcome = "returned" /\ Enabled(flags) = Subs) => pkg.loaded
    /\ C17_Count("catalog_entry") = Cardinality(started \cap {"catalog"})
    /\ C17_Count("index") = Cardinality(started \ {"catalog"})
    /\ C17_Count("reg_index") <= 1
    /\ C17_Count("reg_page") <= 1
    /\ C17_Count("search") <= 1
    /\ outcome = "raised" =>
          /\ pc = "idle"
          /\ \A s \in Subs : req[s] = "none"
          /\ Cardinality(started \ completed) = 1

C17_Witness ==
    /\ outcome = "raised"
    /\ lastFail = [exc |-> Exc("ClientResponseError", 503), retried |-> FALSE]
    /\ started = {"catalog", "reg"}
    /\ completed = {"catalog"}
    /\ requests = <<Url("catalog_entry", 0), Url("index", 0), Url("reg_index", 0)>>

\* the sub-loads begun are the first ones of the enabled sub-loads in the
\* order catalog, reg, search, and all but the last of them have completed
C19_InOrder ==
    /\ completed \subseteq started
    /\ started \subseteq Enabled(flags)
    /\ \A s \in started : \A u \in Enabled(flags) :
          Order(u) < Order(s) => u \in completed

\* C19: the enabled sub-loads run in the order catalog, reg, search, and
\* load() fails fast: the step on which a sub-load raises issues no request
\* and leaves the package as it was, so the components of the sub-loads that
\* completed stay assigned and loaded keeps its value; nothing more happens
\* in that invocation, and loaded changes only when an invocation returns.
C19_OrderedFailFast ==
    [][ /\ C19_InOrder'
        /\ \A s \in completed' : pkg'[s] # None
        /\ (outcome # "raised" /\ outcome' = "raised") =>
              /\ pkg' = pkg
              /\ requests' = requests
              /\ started' = started
              /\ completed' = completed
        /\ outcome = "raised" => loads' = loads + 1
        /\ pkg'.loaded # pkg.loaded => outcome' = "returned"
      ]_vars

C19_Witness ==
    /\ outcome = "raised"
    /\ raisedExc = Exc("JSONDecodeError", 0)
    /\ flags = [s \in Subs |-> TRUE]
    /\ started = {"catalog", "reg"}
    /\ completed = {"catalog"}
    /\ pkg.catalog # None
    /\ pkg.reg = None
    /\ pkg.search = None
    /\ ~pkg.loaded

\* C20: in every state loaded = true implies that catalog, reg and search are
\* all non-null, and a component that is set is never reset to null.
C20_LoadedImpliesComponents ==
    [][ /\ pkg'.loaded => AllPresent'
        /\ \A s \in Subs : pkg[s] # None => pkg'[s] # None
      ]_vars

C20_Witness ==
    /\ loads = 2
    /\ outcome = "raised"
    /\ pkg.loaded
    /\ AllPresent

\* ------------------------------------------------------------------------
\* Claims about single calls
\* ------------------------------------------------------------------------

\* C14: get_endpoint_url returns for DEV, INT and PROD their three distinct
\* index URLs and fails for every other name with the invalid-endpoint
\* error; either way the call has passed nothing to client.get.
C14_EndpointResolution ==
    (call.fn = "get_endpoint_url" /\ result.status # "pending") =>
        /\ call.endpoint = "DEV" =>
              result = Returned("https://apidev.nugettest.org/v3/index.json")
        /\ call.endpoint = "INT" =>
              result = Returned("https://apiint.nugettest.org/v3/index.json")
        /\ call.endpoint = "PROD" =>
              result = Returned("https://api.nuget.org/v3/index.json")
        /\ call.endpoint \notin {"DEV", "INT", "PROD"} =>
              result = Raised(Exc("ValueError", 0))
        /\ Cardinality({get_endpoint_url(e) : e \in {DEV, INT, PROD}}) = 3
        /\ requests = <<>>
        /\ fetched = <<>>

C14_Witness ==
    /\ call.fn = "get_endpoint_url"
    /\ call.endpoint = "dev"
    /\ result.status = "raised"

\* two ids that differ at most in the case of their letters
C15_SameIgnoringCase(a, b) ==
    \/ a = b
    \/ {a, b} = {"Foo.Bar", "foo.bar"}

\* C15: the entry selected from a search response is the first hit whose id
\* equals the package id ignoring case; with no such hit, as with an empty
\* response, it is the NULL sentinel (id "", total_downloads -1, not
\* verified), and no error is raised.
C15_FirstMatchIgnoringCase ==
    (call.fn = "FirstMatch" /\ result.status # "pending") =>
        LET M == {i \in 1..Len(call.doc) :
                    C15_SameIgnoringCase(call.doc[i].id, call.id)}
        IN  /\ result.status = "returned"
            /\ M = {} =>
                  /\ result.value.cls = "NullPackageSearchInfo"
                  /\ result.value.id = ""
                  /\ result.value.total_downloads = -1
                  /\ result.value.verified = FALSE
            /\ M # {} =>
                  LET i == CHOOSE k \in M : \A m \in M : k <= m
                  IN  /\ result.value.cls = "PackageSearchInfo"
                      /\ result.value.id = call.doc[i].id
                      /\ result.value.total_downloads = call.doc[i].totalDownloads

C15_Witness ==
    /\ call.fn = "FirstMatch"
    /\ call.id = "Foo.Bar"
    /\ Len(call.doc) = 2
    /\ call.doc[1].id = "foo.bar"
    /\ call.doc[2].id = "Foo.Bar"
    /\ result.status = "returned"
    /\ result.value.total_downloads = 1

\* C18: a PackageCatalogInfo built from an entry takes for each absent field
\* its default: authors and tags the empty list, created, description and
\* summary the empty string, listed true, is_prerelease false; and authors
\* that are present are the pieces of the text between its commas, trimmed.
C18_CatalogInfoDefaults ==
    (call.fn = "PackageCatalogInfo" /\ result.status # "pending") =>
        LET j == call.json
            o == result.value
        IN  /\ result.status = "returned"
            /\ "authors" \notin j.keys => o.authors = <<>>
            /\ "tags" \notin j.keys => o.tags = <<>>
            /\ "created" \notin j.keys => o.created = Str("")
            /\ "description" \notin j.keys => o.description = Str("")
            /\ "summary" \notin j.keys => o.summary = Str("")
            /\ "listed" \notin j.keys => o.listed = TRUE
            /\ "isPrerelease" \notin j.keys => o.is_prerelease = FALSE
            /\ "authors" \in j.keys =>
                  /\ Len(o.authors)
                        = Cardinality({i \in 1..Len(j.authors) : j.authors[i] = ","}) + 1
                  /\ \A n \in 1..Len(o.authors) :
                        /\ \A i \in 1..Len(o.authors[n]) : o.authors[n][i] # ","
                        /\ o.authors[n] # <<>> =>
                              /\ o.authors[n][1] # " "
                              /\ o.authors[n][Len(o.authors[n])] # " "

\* ------------------------------------------------------------------------
\* Claim about the session
\* ------------------------------------------------------------------------

\* C16: the transport is acquired when the session starts, so the body runs
\* with it, and however the body is left, by returning, by an error or by
\* cancellation, the transport is eventually released.
C16_TransportReleased ==
    /\ [](ses = "open" => transport = "acquired")
    /\ (exitKind # "none") ~> (transport = "released")

C16_Witness ==
    /\ exitKind = "cancelled"
    /\ cat = "root"
    /\ ses = "closed"
    /\ transport = "released"

====
